---- MODULE Spec2Model ----
(***************************************************************************)
(* The write buffer of one chunk (slayerfs CacheSlice and its Pages),      *)
(* src/project/slayerfs/src/vfs/cache/page.rs, as a state machine.         *)
(*                                                                         *)
(* Sizes are scaled down: a page holds page_size bytes, a block two pages, *)
(* a chunk two blocks; bytes are 0..MaxByte and u64 is 0..U64Max.          *)
(* A Rust panic (index or slice out of range) ends the run of the buffer:  *)
(* ret.kind = "panic" and no operation is applied afterwards.              *)
(*                                                                         *)
(* Spec is the buffer under its operations, SpecNew its construction from  *)
(* any configuration, SpecStore the block store's read_range / write_range *)
(* under concurrent callers (chuck::store, after the specification).       *)
(***************************************************************************)
EXTENDS Integers, Sequences, FiniteSets, TLC

\* ------------------------------------------------------------------ bounds
page_size == 2
MaxByte == 4
MaxOps == 3
MaxCallers == 2
MaxSnapOps == 5

\* ------------------------------------------------------------------ layout
block_size == 2 * page_size
chunk_size == 2 * block_size
\* the largest value of the (scaled) u64 type
U64Max == chunk_size + block_size - 1
\* tests::config: the WriteConfig the buffer is built with
Layout == [page_size |-> page_size, block_size |-> block_size, chunk_size |-> chunk_size]

Min(a, b) == IF a <= b THEN a ELSE b
Max(a, b) == IF a >= b THEN a ELSE b
DivCeil(a, b) == (a + b - 1) \div b

Zeros(n) == [i \in 1..n |-> 0]
\* tests::patterned: buf[i] = seed.wrapping_add(i as u8)
patterned(n, seed) == [i \in 1..n |-> (seed + (i - 1)) % (MaxByte + 1)]

RECURSIVE Concat(_)
Concat(ss) == IF ss = <<>> THEN <<>> ELSE Head(ss) \o Concat(Tail(ss))

\* ------------------------------------------------------------------ results
Ok(v) == [kind |-> "ok", val |-> v]
Err(e) == [kind |-> "err", val |-> e]
Panic == [kind |-> "panic", val |-> "panic"]
Unit == "unit"

\* ------------------------------------------------------------------ Page
NoPage == [kind |-> "None", data |-> <<>>]
PageNew(size) == [kind |-> "Mutable", data |-> Zeros(size)]

\* Page::write_slice: the window exists only on a Mutable page
write_slice_ok(page) == page.kind = "Mutable"

\* a bug: a write to a frozen page panics instead of returning the error
write_slice_panics(page, start, end) ==
    IF page.kind = "Mutable" /\ start <= end /\ end <= Len(page.data)
    THEN [page |-> page, ret |-> Ok([from |-> start, to |-> end])]
    ELSE [page |-> page, ret |-> Panic]

\* a bug: the window is granted on a Frozen page too, into the shared bytes
write_slice_into_frozen(page, start, end) ==
    IF start <= end /\ end <= Len(page.data)
    THEN [page |-> page, ret |-> Ok([from |-> start, to |-> end])]
    ELSE [page |-> page, ret |-> Panic]

\* Page::write_slice: the window buf[start..end] of a Mutable page (the slice
\* panics when out of range), the frozen-write error on a Frozen one
write_slice(page, start, end) ==
    IF page.kind = "Mutable"
    THEN IF start <= end /\ end <= Len(page.data)
         THEN [page |-> page, ret |-> Ok([from |-> start, to |-> end])]
         ELSE [page |-> page, ret |-> Panic]
    ELSE [page |-> page, ret |-> Err("FrozenPageWrite")]

\* a bug: the bytes land at the start of the page, not at the window's start
page_fill_from_zero(page, start, bytes) ==
    [page EXCEPT !.data = [i \in 1..Len(page.data) |->
        IF i <= Len(bytes) THEN bytes[i] ELSE page.data[i]]]

\* cursor.read / cursor.read_exact into the window [start, start + Len(bytes))
page_fill(page, start, bytes) ==
    [page EXCEPT !.data = [i \in 1..Len(page.data) |->
        IF i > start /\ i <= start + Len(bytes) THEN bytes[i - start] ELSE page.data[i]]]

\* a bug: the buffer is taken and frozen whatever the state, so a second freeze
\* replaces the snapshot by the (empty) taken buffer
page_freeze_retakes(page) ==
    IF page.kind = "None" THEN page
    ELSE [kind |-> "Frozen", data |-> IF page.kind = "Mutable" THEN page.data ELSE <<>>]

\* Page::freeze
page_freeze(page) ==
    IF page.kind = "Mutable" THEN [kind |-> "Frozen", data |-> page.data] ELSE page

page_bytes(page) ==
    IF page.kind = "Frozen" THEN Ok(page.data) ELSE Err("ReadBeforeFreeze")

\* ------------------------------------------------------------------ CacheSlice
pages_per_block == DivCeil(block_size, page_size)
total_pages == DivCeil(chunk_size, block_size) * pages_per_block
total_blocks == DivCeil(chunk_size, block_size)
Slots == 0..(total_pages - 1)

\* a bug: block and page index change places
flat_index_transposed(block_idx, page_idx, ppb) == page_idx * ppb + block_idx

flat_index(block_idx, page_idx, ppb) == block_idx * ppb + page_idx

\* CacheSlice::new: assert_eq! panics, otherwise the empty page table
new(cfg) ==
    IF cfg.block_size % cfg.page_size # 0 THEN Panic
    ELSE LET blocks == DivCeil(cfg.chunk_size, cfg.block_size)
             ppb == DivCeil(cfg.block_size, cfg.page_size)
         IN  Ok([len |-> 0, alloc_bytes |-> 0,
                 pages |-> [i \in 0..(blocks * ppb - 1) |-> NoPage]])

block_page_range(block_idx, ppb) ==
    [start |-> block_idx * ppb, end |-> block_idx * ppb + ppb]

\* a bug: the offset within the page is dropped, every write starts its page
next_write_slot_page_start(ln) ==
    LET block_index == ln \div block_size
        page_index == (ln % block_size) \div page_size
    IN  [flat_idx |-> flat_index(block_index, page_index, pages_per_block),
         within_page |-> 0]

\* a bug: at a page boundary the slot is the end of the page just filled
next_write_slot_previous_page(ln) ==
    LET at == IF ln > 0 /\ ln % page_size = 0 THEN ln - 1 ELSE ln
        block_index == at \div block_size
        page_index == (at % block_size) \div page_size
    IN  [flat_idx |-> flat_index(block_index, page_index, pages_per_block),
         within_page |-> ln - (at \div page_size) * page_size]

next_write_slot_flat(ln) ==
    LET block_index == ln \div block_size
        within_block == ln % block_size
        page_index == within_block \div page_size
        within_page == within_block % page_size
    IN  [flat_idx |-> flat_index(block_index, page_index, pages_per_block),
         within_page |-> within_page]

\* a bug: a page that is not writable is replaced by a fresh one
ensure_page_mut_replaces_frozen(pgs, ab, flat_idx) ==
    IF pgs[flat_idx].kind # "Mutable"
    THEN [pages |-> [pgs EXCEPT ![flat_idx] = PageNew(page_size)], alloc |-> ab + page_size]
    ELSE [pages |-> pgs, alloc |-> ab]

\* a bug: the new page is not added to alloc_bytes
ensure_page_mut_uncounted(pgs, ab, flat_idx) ==
    IF pgs[flat_idx].kind = "None"
    THEN [pages |-> [pgs EXCEPT ![flat_idx] = PageNew(page_size)], alloc |-> ab]
    ELSE [pages |-> pgs, alloc |-> ab]

ensure_page_mut_by_flat(pgs, ab, flat_idx) ==
    IF pgs[flat_idx].kind = "None"
    THEN [pages |-> [pgs EXCEPT ![flat_idx] = PageNew(page_size)], alloc |-> ab + page_size]
    ELSE [pages |-> pgs, alloc |-> ab]

St(pgs, ab, ln, r) == [pages |-> pgs, alloc |-> ab, len |-> ln, ret |-> r]

\* a bug: any offset at or past len is taken for an append
can_append_from(ln, offset) == ln <= offset

can_append(ln, offset) == ln = offset

\* a bug: the sum wraps around instead of saturating
wrapping_add(a, b) == (a + b) % (U64Max + 1)

saturating_add(a, b) == IF a + b > U64Max THEN U64Max ELSE a + b

can_write_at(ln, offset, n) == saturating_add(offset, n) <= ln

can_write(ln, offset, n) ==
    IF can_append(ln, offset) THEN "Append"
    ELSE IF can_write_at(ln, offset, n) THEN "Overlap"
    ELSE "None"

\* a bug: every child span runs to the end of its child, the last one too
split_into_whole_children(offset, length, container_size, child_size) ==
    LET end == Min(offset + length, container_size)
        first == offset \div child_size
        last == (end - 1) \div child_size
    IN  IF end <= offset THEN <<>>
        ELSE [k \in 1..(last - first + 1) |->
                LET idx == first + k - 1
                    s == Max(offset, idx * child_size)
                    e == (idx + 1) * child_size
                IN  [index |-> idx, offset |-> s - idx * child_size, len |-> e - s]]

\* a bug: the end is taken as inclusive, so a range ending on a child boundary
\* yields a trailing span of length zero in the next child
split_into_inclusive_end(offset, length, container_size, child_size) ==
    LET end == Min(offset + length, container_size)
        first == offset \div child_size
        last == end \div child_size
    IN  IF end <= offset THEN <<>>
        ELSE [k \in 1..(last - first + 1) |->
                LET idx == first + k - 1
                    s == Max(offset, idx * child_size)
                    e == Min(end, (idx + 1) * child_size)
                IN  [index |-> idx, offset |-> s - idx * child_size, len |-> e - s]]

\* Span::split_into with clip = true, the only way the buffer calls it
split_into(offset, length, container_size, child_size) ==
    LET end == Min(offset + length, container_size)
        first == offset \div child_size
        last == (end - 1) \div child_size
    IN  IF end <= offset THEN <<>>
        ELSE [k \in 1..(last - first + 1) |->
                LET idx == first + k - 1
                    s == Max(offset, idx * child_size)
                    e == Min(end, (idx + 1) * child_size)
                IN  [index |-> idx, offset |-> s - idx * child_size, len |-> e - s]]

\* the nested loops of write_at, as the list of page windows they visit
RECURSIVE page_windows(_)
page_windows(block_spans) ==
    IF block_spans = <<>> THEN <<>>
    ELSE LET bs == Head(block_spans)
             ps == split_into(bs.offset, bs.len, block_size, page_size)
         IN  [k \in 1..Len(ps) |->
                [flat_idx |-> flat_index(bs.index, ps[k].index, pages_per_block),
                 offset |-> ps[k].offset, len |-> ps[k].len]]
             \o page_windows(Tail(block_spans))

RECURSIVE write_at_loop(_, _, _, _, _)
write_at_loop(pgs, ab, ln, wins, rest) ==
    IF wins = <<>> THEN St(pgs, ab, ln, Ok(Unit))
    ELSE LET w == Head(wins) IN
         IF w.flat_idx \notin Slots THEN St(pgs, ab, ln, Panic)
         ELSE LET e == ensure_page_mut_by_flat(pgs, ab, w.flat_idx)
                  slice == write_slice(e.pages[w.flat_idx], w.offset, w.offset + w.len)
              IN
              IF slice.ret.kind # "ok"
              THEN St(e.pages, e.alloc, ln, slice.ret)
              ELSE IF Len(rest) < w.len
              THEN St(e.pages, e.alloc, ln, Err("UnexpectedEof"))
              ELSE write_at_loop(
                     [e.pages EXCEPT ![w.flat_idx] =
                        page_fill(@, w.offset, SubSeq(rest, 1, w.len))],
                     e.alloc, ln, Tail(wins), SubSeq(rest, w.len + 1, Len(rest)))

write_at(pgs, ab, ln, offset, buf) ==
    write_at_loop(pgs, ab, ln,
        page_windows(split_into(offset, Len(buf), chunk_size, block_size)), buf)

\* a bug: the check forgets the length of the buffer
append_fits_len_only(ln, n) == ln <= chunk_size

append_fits(ln, n) == ln + n <= chunk_size

\* a bug: len grows by the cursor position instead of the bytes just read
advance_by_position(position, ln, read) ==
    [position |-> position + read, len |-> ln + position + read]

\* position += read; self.len += read
advance(position, ln, read) == [position |-> position + read, len |-> ln + read]

RECURSIVE append_loop(_, _, _, _, _)
append_loop(pgs, ab, ln, buf, position) ==
    IF position >= Len(buf) THEN St(pgs, ab, ln, Ok(Unit))
    ELSE LET slot == next_write_slot_flat(ln) IN
         IF slot.flat_idx \notin Slots THEN St(pgs, ab, ln, Panic)
         ELSE LET e == ensure_page_mut_by_flat(pgs, ab, slot.flat_idx)
                  next_page == write_slice(e.pages[slot.flat_idx],
                                           slot.within_page, page_size)
              IN
              IF next_page.ret.kind # "ok"
              THEN St(e.pages, e.alloc, ln, next_page.ret)
              ELSE LET read == Min(Len(buf) - position, page_size - slot.within_page)
                       next == advance(position, ln, read)
                   IN  IF read = 0 THEN St(e.pages, e.alloc, ln, Ok(Unit))
                       ELSE append_loop(
                              [e.pages EXCEPT ![slot.flat_idx] =
                                 page_fill(@, slot.within_page,
                                           SubSeq(buf, position + 1, position + read))],
                              e.alloc, next.len, buf, next.position)

append(pgs, ab, ln, buf) ==
    IF ~append_fits(ln, Len(buf)) THEN St(pgs, ab, ln, Err("ChunkOverflow"))
    ELSE append_loop(pgs, ab, ln, buf, 0)

\* a bug: the offset is honoured whatever the action, Append writes in place
write_at_offset(pgs, ab, ln, offset, buf, action) ==
    write_at(pgs, ab, ln, offset, buf)

write(pgs, ab, ln, offset, buf, action) ==
    IF action = "Append" THEN append(pgs, ab, ln, buf)
    ELSE write_at(pgs, ab, ln, offset, buf)

freeze(pgs) == [i \in Slots |-> page_freeze(pgs[i])]

\* a bug: the block indices are used as page indices
freeze_blocks_by_page_index(pgs, ab, ln, start, end) ==
    IF start > end \/ end > total_pages THEN St(pgs, ab, ln, Panic)
    ELSE St([i \in Slots |-> IF i >= start /\ i < end
                             THEN page_freeze(pgs[i]) ELSE pgs[i]],
            ab, ln, Ok(Unit))

\* a bug: the range takes the block at end with it, the trailing partial one
freeze_blocks_through_end(pgs, ab, ln, start, end) ==
    LET start_idx == start * pages_per_block
        end_idx == Min((end + 1) * pages_per_block, total_pages)
    IN  IF start > end \/ end > total_blocks THEN St(pgs, ab, ln, Panic)
        ELSE St([i \in Slots |-> IF i >= start_idx /\ i < end_idx
                                 THEN page_freeze(pgs[i]) ELSE pgs[i]],
                ab, ln, Ok(Unit))

\* self.pages[start_idx..end_idx] panics unless start_idx <= end_idx <= pages.len()
freeze_blocks(pgs, ab, ln, start, end) ==
    LET start_idx == start * pages_per_block
        end_idx == end * pages_per_block
    IN  IF start_idx > end_idx \/ end_idx > total_pages THEN St(pgs, ab, ln, Panic)
        ELSE St([i \in Slots |-> IF i >= start_idx /\ i < end_idx
                                 THEN page_freeze(pgs[i]) ELSE pgs[i]],
                ab, ln, Ok(Unit))

\* a bug: freed counts every slot of a listed block, allocated or not
RECURSIVE release_block_counts_slots(_, _, _, _, _)
release_block_counts_slots(pgs, ab, ln, idx, freed) ==
    IF idx = <<>>
    THEN St(pgs, IF ab >= freed THEN ab - freed ELSE 0, ln, Ok(freed))
    ELSE LET range == block_page_range(Head(idx), pages_per_block) IN
         IF range.end > total_pages THEN St(pgs, ab, ln, Panic)
         ELSE release_block_counts_slots(
                 [i \in Slots |-> IF i >= range.start /\ i < range.end
                                  THEN NoPage ELSE pgs[i]],
                 ab, ln, Tail(idx), freed + pages_per_block * page_size)

\* freed accumulates over the listed blocks; alloc_bytes is lowered after the loop
RECURSIVE release_block_loop(_, _, _, _, _)
release_block_loop(pgs, ab, ln, idx, freed) ==
    IF idx = <<>>
    THEN St(pgs, IF ab >= freed THEN ab - freed ELSE 0, ln, Ok(freed))
    ELSE LET range == block_page_range(Head(idx), pages_per_block) IN
         IF range.end > total_pages THEN St(pgs, ab, ln, Panic)
         ELSE LET inb(i) == i >= range.start /\ i < range.end
                  n == Cardinality({i \in Slots : inb(i) /\ pgs[i].kind # "None"})
              IN  release_block_loop(
                     [i \in Slots |-> IF inb(i) THEN NoPage ELSE pgs[i]],
                     ab, ln, Tail(idx), freed + n * page_size)

release_block(pgs, ab, ln, idx) == release_block_loop(pgs, ab, ln, idx, 0)

\* a bug: the freed amount is read after alloc_bytes was reset
release_all_reads_after_reset(pgs, ab, ln) == St([i \in Slots |-> NoPage], 0, ln, Ok(0))

\* a bug: dropping every page also forgets the logical length
release_all_resets_len(pgs, ab, ln) == St([i \in Slots |-> NoPage], 0, 0, Ok(ab))

release_all(pgs, ab, ln) == St([i \in Slots |-> NoPage], 0, ln, Ok(ab))

\* a bug: a hole is always padded to a whole page
make_zero_bytes_whole_page(n) == IF n = 0 THEN <<>> ELSE <<Zeros(page_size)>>

\* utils::zero::make_zero_bytes(n): zero bytes, n in all
make_zero_bytes(n) == IF n = 0 THEN <<>> ELSE <<Zeros(n)>>

\* a bug: every emitted page is a whole page
take_whole_page(remaining) == page_size

\* let take = remaining.min(page_size)
take_len(remaining) == Min(remaining, page_size)

\* a bug: the loop does not stop when the length is exhausted, the rest of the
\* block is emitted as zero pages
RECURSIVE collect_block_pads(_, _, _, _, _)
collect_block_pads(pgs, block_idx, page_idx, remaining, acc) ==
    IF page_idx >= pages_per_block
    THEN [ret |-> Ok(acc), remaining |-> remaining]
    ELSE IF remaining = 0
    THEN collect_block_pads(pgs, block_idx, page_idx + 1, 0,
                            Append(acc, Zeros(page_size)))
    ELSE LET take == take_len(remaining)
             flat_idx == flat_index(block_idx, page_idx, pages_per_block)
         IN  IF flat_idx \notin Slots THEN [ret |-> Panic, remaining |-> remaining]
             ELSE IF pgs[flat_idx].kind # "None"
             THEN LET b == page_bytes(pgs[flat_idx]) IN
                  IF b.kind # "ok" THEN [ret |-> b, remaining |-> remaining]
                  ELSE collect_block_pads(pgs, block_idx, page_idx + 1, remaining - take,
                                          Append(acc, SubSeq(b.val, 1, take)))
             ELSE collect_block_pads(pgs, block_idx, page_idx + 1, remaining - take,
                                     acc \o make_zero_bytes(take))

\* the inner loop of collect_pages over the page slots of one block
RECURSIVE collect_block(_, _, _, _, _)
collect_block(pgs, block_idx, page_idx, remaining, acc) ==
    IF page_idx >= pages_per_block \/ remaining = 0
    THEN [ret |-> Ok(acc), remaining |-> remaining]
    ELSE LET take == take_len(remaining)
             flat_idx == flat_index(block_idx, page_idx, pages_per_block)
         IN  IF flat_idx \notin Slots THEN [ret |-> Panic, remaining |-> remaining]
             ELSE IF pgs[flat_idx].kind # "None"
             THEN LET b == page_bytes(pgs[flat_idx]) IN
                  IF b.kind # "ok" THEN [ret |-> b, remaining |-> remaining]
                  ELSE collect_block(pgs, block_idx, page_idx + 1, remaining - take,
                                     Append(acc, SubSeq(b.val, 1, take)))
             ELSE collect_block(pgs, block_idx, page_idx + 1, remaining - take,
                                acc \o make_zero_bytes(take))

RECURSIVE collect_loop(_, _, _, _, _)
collect_loop(pgs, block_idx, end, remaining, out) ==
    IF block_idx >= end THEN Ok(out)
    ELSE LET b == collect_block(pgs, block_idx, 0, remaining, <<>>) IN
         IF b.ret.kind # "ok" THEN b.ret
         ELSE collect_loop(pgs, block_idx + 1, end, b.remaining,
                           Append(out, [block |-> block_idx, pages |-> b.ret.val]))

\* a bug: the bytes of the blocks before start are not taken off len
collect_pages_no_skip(pgs, ln, start, end) ==
    IF ln = 0 THEN Ok(<<>>) ELSE collect_loop(pgs, start, end, ln, <<>>)

\* a bug: the requested blocks are read in full, whatever len is
collect_pages_whole_range(pgs, ln, start, end) ==
    IF ln = 0 THEN Ok(<<>>)
    ELSE collect_loop(pgs, start, end, (end - start) * block_size, <<>>)

collect_pages(pgs, ln, start, end) ==
    LET skip == start * block_size
        remaining == IF ln >= skip THEN ln - skip ELSE 0
    IN  IF remaining = 0 THEN Ok(<<>>)
        ELSE collect_loop(pgs, start, end, remaining, <<>>)

stats(pgs, ab, ln) ==
    [len |-> ln, alloc_bytes |-> ab, pages_total |-> total_pages,
     pages_used |-> Cardinality({i \in Slots : pgs[i].kind # "None"})]

flat_index_checked(block_idx, page_idx, ppb) ==
    LET flat_idx == flat_index(block_idx, page_idx, ppb) IN
    IF flat_idx < total_pages THEN Ok(flat_idx) ELSE Err("None")

\* CacheSlice::page: the page at (block_idx, page_idx), NoPage for none
page(pgs, block_idx, page_idx) ==
    LET flat_idx == flat_index_checked(block_idx, page_idx, pages_per_block) IN
    IF flat_idx.kind # "ok" THEN NoPage ELSE pgs[flat_idx.val]

\* tests::collect_all: the collected bytes of blocks 0 .. ceil(len / block_size)
collect_all(pgs, ln) ==
    LET end == IF ln = 0 THEN 0 ELSE DivCeil(ln, block_size)
        r == collect_pages(pgs, ln, 0, end)
    IN  IF r.kind # "ok" THEN r
        ELSE Ok(Concat([k \in 1..Len(r.val) |-> Concat(r.val[k].pages)]))

\* ------------------------------------------------------------------ state
VARIABLES
    config,       \* CacheSlice::config
    len,          \* CacheSlice::len
    alloc_bytes,  \* CacheSlice::alloc_bytes
    pages,        \* CacheSlice::pages, by flat index
    op,           \* the operation applied last
    ret,          \* what it returned
    shadow,       \* the bytes the caller expects the chunk to hold (tests: expected)
    marks,        \* what has happened to the buffer that shadow does not follow
    steps,        \* number of operations applied
    store_config, \* ObjectBlockStore: its BlockStoreConfig
    objects,      \* the backend: the object of each block key
    calls,        \* the read_range call of each caller
    groups,       \* the coalescing group of each block key: the callers attached
    inflight,     \* the downstream fetches the backend has not answered yet
    held          \* the byte chunks handed out by collect_pages, as their holder sees them

slice_vars == <<config, len, alloc_bytes, pages, op, ret, shadow, marks, steps>>
store_vars == <<store_config, objects, calls, groups, inflight>>
vars == <<config, len, alloc_bytes, pages, op, ret, shadow, marks, steps,
          store_config, objects, calls, groups, inflight, held>>
buffer == <<len, alloc_bytes, pages>>

\* ------------------------------------------------------------------ inputs
BufLens == {0, 1, page_size + 1, block_size + 1, chunk_size}
PatchLens == {0, 1, page_size + 1, chunk_size}
Bufs == {patterned(n, 1) : n \in BufLens}
Patches == {patterned(n, 2) : n \in PatchLens}
WriteBufs == {b \in Patches : Len(b) \in {1, page_size + 1}}
\* the start, inside a page, and around the block boundary and the chunk's end
Offsets == {0, 1, block_size - 1, block_size + 1, chunk_size}
BlockArgs == 0..(total_blocks + 1)
BlockLists == {<<>>} \cup {<<b>> : b \in 0..total_blocks}
                     \cup {<<a, b>> : a, b \in 0..(total_blocks - 1)}
U64 == 0..U64Max
ProbeLens == {0, 1, U64Max}
Queries == {"collect_pages", "stats", "can_write"}

\* ------------------------------------------------------------------ Init
\* a write buffer on its own: no block store is attached
NoStore ==
    /\ store_config = <<>>
    /\ objects = <<>>
    /\ calls = <<>>
    /\ groups = <<>>
    /\ inflight = {}

\* CacheSlice::new
Init ==
    /\ NoStore
    /\ config = Layout
    /\ len = 0
    /\ alloc_bytes = 0
    /\ pages = [i \in Slots |-> NoPage]
    /\ op = "new"
    /\ ret = Ok(Unit)
    /\ shadow = <<>>
    /\ marks = {}
    /\ steps = 0
    /\ held = {}

\* collect_pages, stats and can_write leave the buffer as it is: a run observes
\* the buffer once, as its last step
Observable == ret.kind # "panic" /\ op \notin Queries
Live == Observable /\ steps < MaxOps

\* the operation's outcome st becomes the buffer's state
Becomes(name, st) ==
    /\ UNCHANGED store_vars
    /\ UNCHANGED held
    /\ config' = config
    /\ pages' = st.pages
    /\ alloc_bytes' = st.alloc
    /\ len' = st.len
    /\ ret' = st.ret
    /\ op' = name
    /\ steps' = IF name \in Queries THEN steps ELSE steps + 1

Failed(st) == IF st.ret.kind = "ok" THEN {} ELSE {"failed"}

\* tests: expected[start..end].copy_from_slice(&patch)
patched(content, offset, buf) ==
    [i \in 1..Len(content) |->
        IF i > offset /\ i <= offset + Len(buf) THEN buf[i - offset] ELSE content[i]]

\* tests: expected.extend_from_slice(&second)
AppendGhost(st, buf) ==
    /\ shadow' = IF st.ret.kind = "ok" THEN shadow \o buf ELSE shadow
    /\ marks' = marks \cup Failed(st)

WriteAtGhost(st, offset, buf) ==
    LET inside == offset + Len(buf) <= len IN
    /\ shadow' = IF st.ret.kind = "ok" /\ inside THEN patched(shadow, offset, buf)
                 ELSE shadow
    /\ marks' = marks \cup Failed(st) \cup (IF inside THEN {"patched"} ELSE {"gap"})

\* ------------------------------------------------------------------ actions
AppendOp(buf) ==
    /\ Live
    /\ LET st == append(pages, alloc_bytes, len, buf) IN
       Becomes("append", st) /\ AppendGhost(st, buf)

WriteAt(offset, buf) ==
    /\ Live
    /\ LET st == write_at(pages, alloc_bytes, len, offset, buf) IN
       Becomes("write_at", st) /\ WriteAtGhost(st, offset, buf)

Write(offset, buf, action) ==
    /\ Live
    /\ LET st == write(pages, alloc_bytes, len, offset, buf, action) IN
       /\ Becomes("write", st)
       /\ IF action = "Append" THEN AppendGhost(st, buf)
          ELSE WriteAtGhost(st, offset, buf)

Freeze ==
    /\ Live
    /\ Becomes("freeze", St(freeze(pages), alloc_bytes, len, Ok(Unit)))
    /\ UNCHANGED <<shadow, marks>>

FreezeBlocks(start, end) ==
    /\ Live
    /\ LET st == freeze_blocks(pages, alloc_bytes, len, start, end) IN
       Becomes("freeze_blocks", st) /\ marks' = marks \cup Failed(st)
    /\ UNCHANGED shadow

ReleaseBlock(idx) ==
    /\ Live
    /\ LET st == release_block(pages, alloc_bytes, len, idx) IN
       Becomes("release_block", st) /\ marks' = marks \cup Failed(st) \cup {"released"}
    /\ UNCHANGED shadow

ReleaseAll ==
    /\ Live
    /\ Becomes("release_all", release_all(pages, alloc_bytes, len))
    /\ marks' = marks \cup {"released"}
    /\ UNCHANGED shadow

CollectPages(start, end) ==
    /\ Observable
    /\ Becomes("collect_pages",
               St(pages, alloc_bytes, len, collect_pages(pages, len, start, end)))
    /\ UNCHANGED <<shadow, marks>>

Stats ==
    /\ Observable
    /\ Becomes("stats", St(pages, alloc_bytes, len, Ok(stats(pages, alloc_bytes, len))))
    /\ UNCHANGED <<shadow, marks>>

CanWrite(offset, n) ==
    /\ Observable
    /\ Becomes("can_write", St(pages, alloc_bytes, len, Ok(can_write(len, offset, n))))
    /\ UNCHANGED <<shadow, marks>>

Next ==
    \/ \E buf \in Bufs : AppendOp(buf)
    \/ \E offset \in Offsets, buf \in Patches : WriteAt(offset, buf)
    \/ \E offset \in Offsets, buf \in WriteBufs, action \in {"Append", "Overlap"} :
          Write(offset, buf, action)
    \/ Freeze
    \/ \E start \in BlockArgs, end \in BlockArgs : FreezeBlocks(start, end)
    \/ \E idx \in BlockLists : ReleaseBlock(idx)
    \/ ReleaseAll
    \/ \E start \in 0..(total_blocks - 1), end \in BlockArgs : CollectPages(start, end)
    \/ Stats
    \/ \E offset \in {len - 1, len, len + 1} \cap U64, n \in ProbeLens :
          CanWrite(offset, n)

Spec == Init /\ [][Next]_vars

\* ------------------------------------------------------------------ construction
\* the configurations a caller may hand to CacheSlice::new
Configs ==
    [page_size : 1..(page_size + 1), block_size : 1..(block_size + 1),
     chunk_size : 1..(chunk_size + 1)]

\* a configuration has been made, no buffer yet
InitNew ==
    /\ NoStore
    /\ config \in Configs
    /\ len = 0
    /\ alloc_bytes = 0
    /\ pages = <<>>
    /\ op = "config"
    /\ ret = Ok(Unit)
    /\ shadow = <<>>
    /\ marks = {}
    /\ steps = 0
    /\ held = {}

New ==
    /\ op = "config"
    /\ LET r == new(config) IN
       /\ ret' = IF r.kind = "ok" THEN Ok(Unit) ELSE r
       /\ pages' = IF r.kind = "ok" THEN r.val.pages ELSE pages
       /\ len' = IF r.kind = "ok" THEN r.val.len ELSE len
       /\ alloc_bytes' = IF r.kind = "ok" THEN r.val.alloc_bytes ELSE alloc_bytes
    /\ op' = "new"
    /\ steps' = steps + 1
    /\ UNCHANGED <<config, shadow, marks>>
    /\ UNCHANGED store_vars
    /\ UNCHANGED held

NextNew == New

SpecNew == InitNew /\ [][NextNew]_vars

\* ------------------------------------------------------------------ Block Store
\* ObjectBlockStore (chuck::store) as the specification describes it; its
\* callers are the examples intelligent_read_demo.rs and s3_demo.rs.
Callers == 1..MaxCallers
\* block keys (chunk_id, block_index)
BlockKeys == {<<42, 3>>, <<42, 4>>}
\* range_read_threshold, a fraction of block_size: 0.5, so that a read of half
\* a block is exactly at the threshold
Thresholds == {[num |-> 1, den |-> 2]}
\* what a backend call fails with
IoError == Err("Backend")

Idle == [pc |-> "idle"]

\* a bug: a read of exactly the threshold takes the whole-block path
use_range_below_only(cfg, n) ==
    n * cfg.range_read_threshold.den < cfg.range_read_threshold.num * cfg.block_size

\* read_range: buf.len() <= range_read_threshold * block_size
use_range(cfg, n) ==
    n * cfg.range_read_threshold.den <= cfg.range_read_threshold.num * cfg.block_size

\* a bug: range requests are keyed by their window, so equal ones merge
RangeFetch_by_window(c, key, offset, n) ==
    [kind |-> "get_object_range", key |-> key, offset |-> offset, n |-> n, by |-> 0]

\* the downstream requests
RangeFetch(c, key, offset, n) ==
    [kind |-> "get_object_range", key |-> key, offset |-> offset, n |-> n, by |-> c]
BlockFetch(c, key) ==
    [kind |-> "get_object", key |-> key, offset |-> 0, n |-> 0, by |-> c]

\* a bug: every caller on the whole-block path starts a fetch of its own
never_attached(grps, key) == FALSE

\* the coalescing group of the key exists: a whole-block fetch is in flight
has_group(grps, key) == grps[key] # {}

\* a bug: only the caller that started the fetch is handed its outcome
served_leader_only(grps, key) ==
    {c \in grps[key] :
        \E r \in inflight : r.kind = "get_object" /\ r.key = key /\ r.by = c}

\* the callers the resolved fetch of the key is handed to: all those attached
served(grps, key) == grps[key]

\* a bug: the group entry stays after its fetch has resolved
kept(grps, key) == grps

\* the group of the key is torn down
torn_down(grps, key) == [grps EXCEPT ![key] = {}]

\* a bug: the fetch is dropped with the task that started it
cancels_with_leader(grps, key, c, by) == c = by

\* a caller leaving the group cancels the fetch only as its last waiter
cancels(grps, key, c, by) == grps[key] \ {c} = {}

\* the window [offset, offset + n) of a fetched object
\* a bug: the backend is asked for the first n bytes, the offset is dropped
get_object_range_from_start(data, offset, n) ==
    IF offset + n <= Len(data) THEN Ok(SubSeq(data, 1, n))
    ELSE Err("ShortObject")

\* the backend's answer to a range fetch: the bytes [offset, offset + n) of the
\* object, an error when the object does not hold them all
get_object_range(data, offset, n) ==
    IF offset + n <= Len(data)
    THEN Ok([k \in 1..n |-> data[offset + k]])
    ELSE Err("ShortObject")

window(data, offset, n) ==
    IF offset + n <= Len(data) THEN Ok(SubSeq(data, offset + 1, offset + n))
    ELSE Err("ShortObject")

\* write_range: buf lands at offset of the block's object, which grows to hold it
written(data, offset, buf) ==
    [i \in 1..Max(Len(data), offset + Len(buf)) |->
        IF i > offset /\ i <= offset + Len(buf) THEN buf[i - offset]
        ELSE IF i <= Len(data) THEN data[i] ELSE 0]

InitStore ==
    /\ store_config \in [block_size : {block_size}, range_read_threshold : Thresholds]
    /\ objects = [key \in BlockKeys |-> <<>>]
    /\ calls = [c \in Callers |-> Idle]
    /\ groups = [key \in BlockKeys |-> {}]
    /\ inflight = {}
    /\ config = Layout
    /\ len = 0
    /\ alloc_bytes = 0
    /\ pages = <<>>
    /\ op = "store"
    /\ ret = Ok(Unit)
    /\ shadow = <<>>
    /\ marks = {}
    /\ steps = 0
    /\ held = {}

WriteRange(key, offset, buf) ==
    /\ objects' = [objects EXCEPT ![key] = written(@, offset, buf)]
    /\ UNCHANGED <<store_config, calls, groups, inflight>>
    /\ UNCHANGED slice_vars
    /\ UNCHANGED held

\* a caller enters read_range: the length of its buffer decides the path
ReadRange(c, key, offset, n) ==
    /\ calls[c].pc = "idle"
    /\ IF use_range(store_config, n)
       THEN /\ calls' = [calls EXCEPT ![c] =
                 [pc |-> "fetching", path |-> "range", key |-> key, offset |-> offset,
                  n |-> n, issued |-> <<RangeFetch(c, key, offset, n)>>]]
            /\ inflight' = inflight \cup {RangeFetch(c, key, offset, n)}
            /\ UNCHANGED groups
       ELSE IF ~has_group(groups, key)
       THEN /\ calls' = [calls EXCEPT ![c] =
                 [pc |-> "waiting", path |-> "whole", key |-> key, offset |-> offset,
                  n |-> n, issued |-> <<BlockFetch(c, key)>>]]
            /\ inflight' = inflight \cup {BlockFetch(c, key)}
            /\ groups' = [groups EXCEPT ![key] = {c}]
       ELSE /\ calls' = [calls EXCEPT ![c] =
                 [pc |-> "waiting", path |-> "whole", key |-> key, offset |-> offset,
                  n |-> n, issued |-> <<>>]]
            /\ groups' = [groups EXCEPT ![key] = @ \cup {c}]
            /\ UNCHANGED inflight
    /\ UNCHANGED <<store_config, objects>>
    /\ UNCHANGED slice_vars
    /\ UNCHANGED held

\* the backend answers a range fetch with the bytes of the window, or fails
RangeFetched(c, ok) ==
    /\ calls[c].pc = "fetching"
    /\ LET call == calls[c]
           r == RangeFetch(c, call.key, call.offset, call.n)
       IN  /\ r \in inflight
           /\ inflight' = inflight \ {r}
           /\ calls' = [calls EXCEPT ![c] =
                 [pc |-> "done", path |-> call.path, key |-> call.key,
                  offset |-> call.offset, n |-> call.n, issued |-> call.issued,
                  result |-> IF ok
                             THEN get_object_range(objects[call.key], call.offset, call.n)
                             ELSE IoError]]
    /\ UNCHANGED <<store_config, objects, groups>>
    /\ UNCHANGED slice_vars
    /\ UNCHANGED held

\* the backend answers the whole-block fetch of a key: every caller attached to
\* the group takes its window of the same bytes (or the same error) and the
\* group is torn down
BlockFetched(key, ok) ==
    /\ \E r \in inflight :
          /\ r.kind = "get_object" /\ r.key = key
          /\ inflight' = inflight \ {r}
    /\ calls' = [c \in Callers |->
          IF c \in served(groups, key)
          THEN [pc |-> "done", path |-> calls[c].path, key |-> key,
                offset |-> calls[c].offset, n |-> calls[c].n,
                issued |-> calls[c].issued,
                result |-> IF ok THEN window(objects[key], calls[c].offset, calls[c].n)
                           ELSE IoError]
          ELSE calls[c]]
    /\ groups' = torn_down(groups, key)
    /\ UNCHANGED <<store_config, objects>>
    /\ UNCHANGED slice_vars
    /\ UNCHANGED held

\* the caller drops its read_range call (timeout or task cancellation): a range
\* fetch goes with it, a whole-block fetch only with the last waiter of the group
Abandon(c) ==
    /\ calls[c].pc \in {"fetching", "waiting"}
    /\ calls' = [calls EXCEPT ![c] = Idle]
    /\ IF calls[c].pc = "fetching"
       THEN /\ inflight' = inflight \ {RangeFetch(c, calls[c].key, calls[c].offset, calls[c].n)}
            /\ UNCHANGED groups
       ELSE LET key == calls[c].key
                fetch == CHOOSE r \in inflight : r.kind = "get_object" /\ r.key = key
            IN  /\ groups' = [groups EXCEPT ![key] = @ \ {c}]
                /\ inflight' = IF cancels(groups, key, c, fetch.by)
                               THEN inflight \ {fetch} ELSE inflight
    /\ UNCHANGED <<store_config, objects>>
    /\ UNCHANGED slice_vars
    /\ UNCHANGED held

\* read_range has returned to its caller
Return(c) ==
    /\ calls[c].pc = "done"
    /\ calls' = [calls EXCEPT ![c] = Idle]
    /\ UNCHANGED <<store_config, objects, groups, inflight>>
    /\ UNCHANGED slice_vars
    /\ UNCHANGED held

\* the block written and rewritten with other bytes; the second block is never
\* written, a read of it finds no object
Writes ==
    {[key |-> <<42, 3>>, buf |-> patterned(block_size, seed)] : seed \in {1, 2}}
\* a read of half a block (at the threshold 0.5), one byte more, and a whole block
ReadWindows ==
    {[offset |-> 0, n |-> block_size \div 2],
     [offset |-> 1, n |-> block_size \div 2 + 1],
     [offset |-> 0, n |-> block_size]}

NextStore ==
    \/ \E w \in Writes : WriteRange(w.key, 0, w.buf)
    \/ \E c \in Callers, key \in BlockKeys, w \in ReadWindows :
          ReadRange(c, key, w.offset, w.n)
    \/ \E c \in Callers, ok \in BOOLEAN : RangeFetched(c, ok)
    \/ \E key \in BlockKeys, ok \in BOOLEAN : BlockFetched(key, ok)
    \/ \E c \in Callers : Abandon(c)
    \/ \E c \in Callers : Return(c)

SpecStore == InitStore /\ [][NextStore]_vars

\* the backend answers every whole-block fetch in the end, with bytes or with
\* an error
FairStore ==
    \A key \in BlockKeys : WF_vars(\E ok \in BOOLEAN : BlockFetched(key, ok))

SpecStoreFair == SpecStore /\ FairStore

\* ------------------------------------------------------------------ claims

\* C1: in every reachable buffer state and for all offset and length,
\* can_write(offset, length) is Append exactly when offset = len (also for
\* length 0), otherwise Overlap exactly when offset + length <= len, otherwise
\* rejected (None); a write from below len to above len is rejected.
C1_CanWriteDecision ==
    \A offset \in U64, n \in U64 :
        can_write(len, offset, n) =
            IF offset = len THEN "Append"
            ELSE IF offset + n <= len THEN "Overlap"
            ELSE "None"

C1_Witness ==
    /\ op = "can_write" /\ ret = Ok("None")
    /\ len >= 2 /\ steps >= 2
    /\ can_write(len, len - 1, U64Max) = "None"
    /\ can_write(len, len - 1, 1) = "Overlap"
    /\ can_write(len, len, 0) = "Append"

\* C2: after any sequence of buffer operations can_write(len, n) is Append for
\* every n, and can_write(len + 1, n) is rejected for every n > 0.
C2_AppendAtLenOnly ==
    \A n \in U64 :
        /\ can_write(len, len, n) = "Append"
        /\ n > 0 => can_write(len, len + 1, n) = "None"

C2_Witness ==
    /\ op = "can_write" /\ ret = Ok("Append")
    /\ len > 0 /\ steps = MaxOps
    /\ can_write(len, len + 1, 1) = "None"

\* C4: len never exceeds chunk_size, whatever sequence of append, write_at,
\* write, freeze, freeze_blocks, release_block, release_all and collect_pages
\* has been applied.
C4_LenWithinChunk == len <= chunk_size

C4_Witness ==
    /\ op = "append" /\ ret = Err("ChunkOverflow")
    /\ len = chunk_size

\* C3: gap-filling is never performed: a write(offset, buf, action) whose
\* offset lies beyond len surfaces as an error to the caller, allocates no
\* page, modifies no page byte and does not change len.
C3_GapWriteRejected ==
    [][\A offset \in Offsets, buf \in WriteBufs, action \in {"Append", "Overlap"} :
         (op' = "write" /\ offset > len /\ Write(offset, buf, action))
            => (ret'.kind = "err" /\ UNCHANGED buffer)]_vars

\* C5: append(buf) with len + buf.len() > chunk_size fails with the
\* chunk-overflow error and leaves len, alloc_bytes and every page slot
\* unchanged; no prefix of buf is written.
C5_OverflowRejectedWhole ==
    [][\A buf \in Bufs :
         (op' = "append" /\ len + Len(buf) > chunk_size /\ AppendOp(buf))
            => (ret' = Err("ChunkOverflow") /\ UNCHANGED buffer)]_vars

C5_Witness ==
    /\ op = "append" /\ ret = Err("ChunkOverflow")
    /\ 0 < len /\ len < chunk_size
    /\ \E i \in Slots : pages[i].kind = "None"

\* C6: len changes only through append and never decreases: a successful
\* append(buf) sets len to exactly old len + buf.len(); write_at (also a full
\* overwrite from offset 0), freeze, freeze_blocks, release_block, release_all,
\* collect_pages and stats leave len unchanged.
C6_LenOnlyGrowsByAppend ==
    [][/\ len' >= len
       /\ len' # len => (op' = "append" \/ op' = "write")
       /\ \A buf \in Bufs :
            (op' = "append" /\ AppendOp(buf) /\ ret'.kind = "ok")
               => len' = len + Len(buf)
       /\ \A offset \in Offsets, buf \in WriteBufs :
            (op' = "write" /\ Write(offset, buf, "Overlap")) => len' = len]_vars

C6_Witness ==
    /\ op = "write_at" /\ ret.kind = "ok"
    /\ len = chunk_size /\ marks = {"patched"}
    /\ shadow = patterned(chunk_size, 2)

NoFrozen(pgs) == \A i \in Slots : pgs[i].kind # "Frozen"
NoMutable(pgs) == \A i \in Slots : pgs[i].kind # "Mutable"

\* C7: from an empty buffer, after any sequence of successful appends (of any
\* sizes, crossing page and block boundaries) followed by freeze(), the
\* concatenation in block order of collect_pages(0, ceil(len / block_size))
\* equals the appended bytes, byte for byte, and has length len.
C7_AppendFreezeCollect ==
    (op = "freeze" /\ marks = {}) =>
        /\ collect_all(pages, len) = Ok(shadow)
        /\ Len(shadow) = len

C7_Witness ==
    /\ op = "freeze" /\ marks = {}
    /\ shadow = patterned(page_size + 1, 1) \o patterned(block_size + 1, 1)
    /\ collect_all(pages, len) = Ok(shadow)

\* C8: for a buffer holding appended data D, no page frozen or released, and
\* any patch with offset + patch.len() <= len, write_at(offset, patch) succeeds
\* and afterwards freeze + collect yields D with exactly the bytes
\* [offset, offset + patch.len()) replaced by patch, every other byte
\* unchanged, also across page and block boundaries and for the whole chunk.
C8_OverwriteInPlace ==
    [][\A offset \in Offsets, buf \in Patches :
         (/\ op' = "write_at"
          /\ offset + Len(buf) <= len
          /\ NoFrozen(pages)
          /\ marks \subseteq {"patched"}
          /\ WriteAt(offset, buf))
            => /\ ret'.kind = "ok"
               /\ collect_all(freeze(pages), len) = Ok(shadow)
               /\ collect_all(freeze(pages'), len') = Ok(patched(shadow, offset, buf))]_vars

C8_Witness ==
    /\ op = "write_at" /\ ret.kind = "ok" /\ marks = {"patched"}
    /\ NoFrozen(pages)
    /\ shadow = patched(patterned(chunk_size, 1), block_size - 1,
                        patterned(page_size + 1, 2))
    /\ shadow # patterned(chunk_size, 1)
    /\ collect_all(freeze(pages), len) = Ok(shadow)

\* C9 as claimed: appending fewer bytes than a full page, freezing, and
\* collecting over a block range that extends past len yields the written
\* prefix followed by zero-fill for the rest of the page (page_size bytes).
C9_ZeroFilledPage ==
    (op = "freeze" /\ marks = {} /\ 0 < len /\ len < page_size) =>
        LET r == collect_pages(pages, len, 0, total_blocks) IN
        /\ r.kind = "ok"
        /\ r.val[1].pages = <<shadow \o Zeros(page_size - len)>>

\* C9 amended: appending fewer bytes than a full page, freezing, and collecting
\* over a block range that extends past len yields exactly the written prefix:
\* one chunk of len bytes for block 0, no zero-fill, and no chunk for any later
\* block of the range.
C9_PrefixOnly ==
    (op = "freeze" /\ marks = {} /\ 0 < len /\ len < page_size) =>
        LET r == collect_pages(pages, len, 0, total_blocks) IN
        /\ r.kind = "ok"
        /\ r.val[1] = [block |-> 0, pages |-> <<shadow>>]
        /\ Len(shadow) = len
        /\ \A k \in 2..Len(r.val) : r.val[k].pages = <<>>

C9_Witness ==
    /\ op = "freeze" /\ marks = {} /\ 0 < len /\ len < page_size
    /\ shadow = patterned(1, 1)
    /\ collect_pages(pages, len, 0, total_blocks).val[1].pages = <<shadow>>

\* the sizes of the chunks collect_pages is to emit for one block: one per page
\* slot starting below ln, a whole page or what is left of ln
RECURSIVE ChunkSizes(_, _, _)
ChunkSizes(ln, block_idx, page_idx) ==
    LET from == block_idx * block_size + page_idx * page_size IN
    IF page_idx >= pages_per_block \/ from >= ln THEN <<>>
    ELSE <<Min(page_size, ln - from)>> \o ChunkSizes(ln, block_idx, page_idx + 1)

\* C10: collect_pages emits, per block, one byte chunk per page slot that
\* starts below len: whole pages for the slots entirely below len, the last one
\* cut to the remaining logical length, none for a slot at or past len.
C10_ChunkPerSlotBelowLen ==
    \A start \in BlockArgs, end \in BlockArgs :
        LET r == collect_pages(pages, len, start, end) IN
        (r.kind = "ok" /\ start * block_size < len) =>
            /\ Len(r.val) = Max(end - start, 0)
            /\ \A k \in 1..Len(r.val) :
                 /\ r.val[k].block = start + k - 1
                 /\ [j \in 1..Len(r.val[k].pages) |-> Len(r.val[k].pages[j])]
                      = ChunkSizes(len, start + k - 1, 0)

C10_Witness ==
    /\ op = "collect_pages" /\ ret.kind = "ok"
    /\ len = block_size + 1 /\ marks = {}
    /\ Len(ret.val) = 2
    /\ ret.val[1].block = 0 /\ Len(ret.val[1].pages) = pages_per_block
    /\ ret.val[2].block = 1 /\ Len(ret.val[2].pages) = 1
    /\ Len(ret.val[2].pages[1]) = 1

\* the page slots of blocks [start, end)
SlotsOfBlocks(start, end) ==
    {i \in Slots : start * pages_per_block <= i /\ i < end * pages_per_block}

\* C11: collect_pages(start, end) returns an error whenever any page in blocks
\* [start, end) is still Mutable, and returns successfully only if every
\* allocated page it emits is Frozen; the bytes of a Mutable page are never
\* returned.
C11_MutableFailsCollect ==
    \A start \in BlockArgs, end \in BlockArgs :
        LET r == collect_pages(pages, len, start, end) IN
        /\ (\E i \in SlotsOfBlocks(start, end) : pages[i].kind = "Mutable")
              => r.kind = "err"
        /\ r.kind = "ok" =>
              \A k \in 1..Len(r.val) : \A j \in 1..Len(r.val[k].pages) :
                  pages[flat_index(r.val[k].block, j - 1, pages_per_block)].kind
                      # "Mutable"

\* C12: for every page the buffer holds after any sequence of operations,
\* write_slice on a Frozen page returns the frozen-write error (whatever the
\* window) and bytes() on a page that has not been frozen returns the
\* not-yet-frozen error; neither call panics or changes the page.
C12_PageErrors ==
    \A i \in Slots :
        /\ pages[i].kind = "Frozen" =>
              \A start \in 0..(page_size + 1), end \in 0..(page_size + 1) :
                  write_slice(pages[i], start, end)
                      = [page |-> pages[i], ret |-> Err("FrozenPageWrite")]
        /\ pages[i].kind = "Mutable" =>
              page_bytes(pages[i]) = Err("ReadBeforeFreeze")

C12_Witness ==
    /\ op \in {"append", "write_at"} /\ ret = Err("FrozenPageWrite")
    /\ \E i \in Slots : pages[i].kind = "Frozen"
    /\ \E i \in Slots : pages[i].kind = "Mutable"

\* C13: the page state only moves from Mutable to Frozen: once a page is
\* Frozen, no operation of the buffer (append, write_at, write, freeze,
\* freeze_blocks, collect_pages) makes it Mutable again or changes its bytes; a
\* Frozen page stays as it is or is dropped by release_block / release_all.
C13_FrozenStaysFrozen ==
    [][\A i \in Slots :
         pages[i].kind = "Frozen" =>
            \/ pages'[i] = pages[i]
            \/ pages'[i] = NoPage /\ op' \in {"release_block", "release_all"}]_vars

C13_Witness ==
    /\ op = "append" /\ ret.kind = "ok" /\ len = block_size + 2
    /\ \E i \in Slots : pages[i].kind = "Frozen" /\ pages[i].data # Zeros(page_size)
    /\ \E i \in Slots : pages[i].kind = "Mutable"

\* C14: freeze is idempotent: freeze() turns every Mutable page into a Frozen
\* one holding exactly the bytes of its buffer at that moment, leaves a Frozen
\* page as it is, and applying it again changes nothing; the same holds for
\* freeze_blocks over the same range.
C14_FreezeIdempotent ==
    [][/\ (op' = "freeze" /\ Freeze) =>
            /\ \A i \in Slots :
                 pages'[i] = IF pages[i].kind = "Mutable"
                             THEN [kind |-> "Frozen", data |-> pages[i].data]
                             ELSE pages[i]
            /\ freeze(pages') = pages'
            /\ UNCHANGED <<len, alloc_bytes>>
       /\ \A start \in BlockArgs, end \in BlockArgs :
            (op' = "freeze_blocks" /\ FreezeBlocks(start, end) /\ ret'.kind = "ok") =>
               /\ \A i \in SlotsOfBlocks(start, end) :
                    pages'[i] = IF pages[i].kind = "Mutable"
                                THEN [kind |-> "Frozen", data |-> pages[i].data]
                                ELSE pages[i]
               /\ freeze_blocks(pages', alloc_bytes', len', start, end)
                    = St(pages', alloc_bytes', len', Ok(Unit))]_vars

\* a freeze applied to a buffer that an earlier freeze_blocks had partly frozen
C14_Witness ==
    /\ op = "freeze" /\ marks = {} /\ steps = MaxOps
    /\ len = block_size + 1
    /\ \A i \in Slots : i * page_size < len => pages[i].kind = "Frozen"
    /\ pages[0].data = patterned(page_size, 1)
    /\ freeze(pages) = pages

\* C15: freeze_blocks(start, end), for blocks start <= end of the buffer,
\* freezes every allocated page of blocks [start, end) and leaves unchanged
\* the state and bytes of every page outside those blocks, every empty slot,
\* len and alloc_bytes; freeze() does the same for all blocks.  (A range
\* outside the page table panics and changes nothing.)
C15_FreezeFrame ==
    [][/\ \A start \in BlockArgs, end \in BlockArgs :
            (op' = "freeze_blocks" /\ FreezeBlocks(start, end)) =>
               /\ ret'.kind = "ok" <=> (start <= end /\ end <= total_blocks)
               /\ ret'.kind = "ok" =>
                    \A i \in SlotsOfBlocks(start, end) :
                        pages[i].kind # "None" =>
                            pages'[i] = [kind |-> "Frozen", data |-> pages[i].data]
               /\ ret'.kind # "ok" => pages' = pages
               /\ \A i \in Slots \ SlotsOfBlocks(start, end) : pages'[i] = pages[i]
               /\ \A i \in Slots : pages[i].kind = "None" => pages'[i] = NoPage
               /\ UNCHANGED <<len, alloc_bytes>>
       /\ (op' = "freeze" /\ Freeze) =>
            /\ \A i \in Slots :
                 pages[i].kind # "None" =>
                     pages'[i] = [kind |-> "Frozen", data |-> pages[i].data]
            /\ \A i \in Slots : pages[i].kind = "None" => pages'[i] = NoPage
            /\ UNCHANGED <<len, alloc_bytes>>]_vars

C15_Witness ==
    /\ op = "freeze_blocks" /\ ret.kind = "ok" /\ marks = {}
    /\ len = block_size + 1 /\ alloc_bytes = (pages_per_block + 1) * page_size
    /\ \A i \in SlotsOfBlocks(0, 1) : pages[i].kind = "Frozen"
    /\ pages[pages_per_block].kind = "Mutable"
    /\ pages[total_pages - 1].kind = "None"

\* the blocks a list of indices names
BlocksOf(idx) == {idx[k] : k \in 1..Len(idx)}

\* C16: release_block(indices), for any list of in-range block indices, also
\* repeated ones, empties every page slot of the listed blocks, returns
\* page_size times the number of pages that were allocated in those blocks
\* (each page counted once), lowers alloc_bytes by exactly the returned amount
\* and leaves the pages of all other blocks (and len) unchanged; afterwards
\* page(b, *) is none for every released block b.
C16_ReleaseBlock ==
    [][\A idx \in BlockLists :
         (/\ op' = "release_block"
          /\ \A b \in BlocksOf(idx) : b < total_blocks
          /\ ReleaseBlock(idx)) =>
            LET released == UNION {SlotsOfBlocks(b, b + 1) : b \in BlocksOf(idx)}
                dropped == {i \in released : pages[i].kind # "None"}
            IN  /\ ret' = Ok(page_size * Cardinality(dropped))
                /\ alloc_bytes' = alloc_bytes - ret'.val
                /\ \A i \in released : pages'[i] = NoPage
                /\ \A i \in Slots \ released : pages'[i] = pages[i]
                /\ \A b \in BlocksOf(idx), p \in 0..(pages_per_block - 1) :
                     page(pages', b, p) = NoPage
                /\ len' = len]_vars

C16_Witness ==
    /\ op = "release_block" /\ ret = Ok(pages_per_block * page_size)
    /\ len = block_size + 1 /\ alloc_bytes = page_size
    /\ \A p \in 0..(pages_per_block - 1) : page(pages, 0, p) = NoPage
    /\ page(pages, 1, 0).kind = "Frozen"

\* C17: release_all() drops every page (pages_used becomes 0), resets
\* alloc_bytes to 0 and returns the alloc_bytes value held before the call,
\* which equals page_size times the number of pages dropped.
C17_ReleaseAll ==
    [][(op' = "release_all" /\ ReleaseAll) =>
          /\ stats(pages', alloc_bytes', len').pages_used = 0
          /\ \A i \in Slots : pages'[i] = NoPage
          /\ alloc_bytes' = 0
          /\ ret' = Ok(alloc_bytes)
          /\ ret'.val = page_size * stats(pages, alloc_bytes, len).pages_used]_vars

C17_Witness ==
    /\ op = "release_all" /\ ret = Ok((pages_per_block + 1) * page_size)
    /\ len = block_size + 1 /\ alloc_bytes = 0
    /\ stats(pages, alloc_bytes, len).pages_used = 0

\* C18: constructing a write buffer validates both layout invariants,
\* block_size % page_size = 0 and chunk_size % block_size = 0: a configuration
\* violating either is rejected (a fatal error) and no buffer is created.
C18_LayoutValidated ==
    op = "new" =>
        /\ ret.kind = "ok" <=> (/\ config.block_size % config.page_size = 0
                                /\ config.chunk_size % config.block_size = 0)
        /\ ret.kind # "ok" => pages = <<>>

\* the page slots the byte range [from, from + n) lies in
SlotsOfRange(from, n) == {q \div page_size : q \in from..(from + n - 1)}

\* the bytes buf are held by Mutable pages at the byte positions from ..
StoredAt(pgs, from, buf) ==
    \A k \in 1..Len(buf) :
        LET q == from + k - 1 IN
        /\ q \div page_size \in Slots
        /\ pgs[q \div page_size].kind = "Mutable"
        /\ pgs[q \div page_size].data[(q % page_size) + 1] = buf[k]

\* C19: a flush (freeze, freeze_blocks) and the writes are calls on one
\* exclusively borrowed buffer, so every interleaving is a sequence of whole
\* calls.  In each of them a write (append or write_at) whose target range
\* touches a Frozen page returns the frozen-write error and does not panic,
\* and whenever a write returns Ok every byte of its buffer is held by Mutable
\* pages at the target range: no write is dropped or applied to a frozen
\* snapshot.
C19_WriteVersusFreeze ==
    [][/\ \A buf \in Bufs :
            (op' = "append" /\ AppendOp(buf)) =>
               /\ (/\ append_fits(len, Len(buf))
                   /\ \E i \in SlotsOfRange(len, Len(buf)) \cap Slots :
                         pages[i].kind = "Frozen")
                     => ret' = Err("FrozenPageWrite")
               /\ ret'.kind = "ok" => StoredAt(pages', len, buf)
       /\ \A offset \in Offsets, buf \in Patches :
            (op' = "write_at" /\ WriteAt(offset, buf)) =>
               /\ (\E i \in SlotsOfRange(offset, Len(buf)) \cap Slots :
                      pages[i].kind = "Frozen")
                     => ret' = Err("FrozenPageWrite")
               /\ ret'.kind = "ok" => StoredAt(pages', offset, buf)]_vars

\* the downstream fetches of a kind that a call has issued
IssuedOf(call, kind) == {k \in 1..Len(call.issued) : call.issued[k].kind = kind}

\* C20: read_range chooses its strategy by the length of the buffer alone:
\* with buf.len() <= range_read_threshold * block_size the call issues exactly
\* one byte-range fetch, for [offset, offset + buf.len()), and no whole-object
\* fetch; with buf.len() above it the call is served by a whole-block fetch
\* (its own, or the one in flight for the key) and issues no range fetch.
C20_StrategyByLength ==
    \A c \in Callers :
        calls[c].pc # "idle" =>
            LET call == calls[c]
                t == store_config.range_read_threshold
            IN  IF call.n * t.den <= t.num * store_config.block_size
                THEN /\ call.path = "range"
                     /\ call.issued = <<RangeFetch(c, call.key, call.offset, call.n)>>
                     /\ c \notin groups[call.key]
                     /\ call.pc = "fetching" <=> call.issued[1] \in inflight
                ELSE /\ call.path = "whole"
                     /\ IssuedOf(call, "get_object_range") = {}
                     /\ Len(call.issued) <= 1
                     /\ call.pc = "waiting" =>
                          /\ c \in groups[call.key]
                          /\ \E r \in inflight : r.kind = "get_object" /\ r.key = call.key

\* one caller is done with a read exactly at the threshold, another waits for
\* the whole-block fetch of the same key
C20_Witness ==
    \E c, d \in Callers :
        /\ calls[c].pc = "done" /\ calls[c].path = "range"
        /\ calls[c].n * 2 = store_config.block_size
        /\ calls[c].result = Ok(SubSeq(patterned(block_size, 1), 1, calls[c].n))
        /\ calls[d].pc = "waiting" /\ calls[d].path = "whole"
        /\ calls[d].key = calls[c].key
        /\ calls[d].n = calls[c].n + 1

\* the whole-block fetches in flight for a key, and the callers waiting for one
BlockFetches(key) == {r \in inflight : r.kind = "get_object" /\ r.key = key}
Attached(key) == {c \in Callers : calls[c].pc = "waiting" /\ calls[c].key = key}

\* C21: under any interleaving of concurrent read_range calls on the
\* whole-block path at most one downstream whole-block fetch is in flight per
\* block key at any time, and the N callers that overlap on a block key are
\* served by exactly one downstream fetch: at most one of them has issued it.
C21_OneFetchPerKey ==
    \A key \in BlockKeys :
        /\ Cardinality(BlockFetches(key)) <= 1
        /\ Attached(key) = groups[key]
        /\ Attached(key) # {} => Cardinality(BlockFetches(key)) = 1
        /\ Cardinality({c \in Attached(key) : calls[c].issued # <<>>}) <= 1

\* every caller waits on the same key, with different windows, for one fetch
C21_Witness ==
    \E key \in BlockKeys :
        /\ Attached(key) = Callers
        /\ Cardinality(inflight) = 1
        /\ \E c, d \in Callers : calls[c].offset # calls[d].offset

\* C22: every caller attached to the coalescing group of a block key returns
\* once the single fetch resolves, and all of them receive the identical
\* outcome: their windows of the same fetched bytes on success, the same error
\* on failure; no waiter is left pending and none receives a different result.
C22_AllWaitersServed ==
    /\ [][\A key \in BlockKeys :
            (\E ok \in BOOLEAN : BlockFetched(key, ok)) =>
               /\ \A c \in groups[key] : calls'[c].pc = "done"
               /\ \/ \A c \in groups[key] : calls'[c].result = IoError
                  \/ \A c \in groups[key] :
                        calls'[c].result
                            = window(objects[key], calls[c].offset, calls[c].n)
               /\ \A c \in Callers :
                    ~(calls'[c].pc = "waiting" /\ calls'[c].key = key)]_vars
    /\ \A key \in BlockKeys : []<>(Attached(key) = {})

\* two callers hold different windows of the same fetched block
C22_Witness ==
    \E c, d \in Callers :
        /\ calls[c].pc = "done" /\ calls[d].pc = "done"
        /\ calls[c].path = "whole" /\ calls[d].path = "whole"
        /\ calls[c].key = <<42, 3>> /\ calls[d].key = <<42, 3>>
        /\ calls[c].issued # <<>> /\ calls[d].issued = <<>>
        /\ calls[c].offset = 0 /\ calls[d].offset = 1
        /\ calls[c].result = window(patterned(block_size, 2), 0, calls[c].n)
        /\ calls[d].result = window(patterned(block_size, 2), 1, calls[d].n)

\* C23: the coalescing group holds no result after resolution: a group exists
\* only while its whole-block fetch is in flight, the step that completes the
\* fetch (with bytes or with the error) removes the group entry, and the next
\* read_range on the whole-block path for that key, finding no group, issues a
\* fresh downstream fetch and holds no result until that fetch completes.
C23_GroupTornDown ==
    /\ [](\A key \in BlockKeys : groups[key] # {} <=> BlockFetches(key) # {})
    /\ [][\A key \in BlockKeys :
            (\E ok \in BOOLEAN : BlockFetched(key, ok)) =>
                /\ groups'[key] = {}
                /\ \A r \in inflight' : ~(r.kind = "get_object" /\ r.key = key)]_vars
    /\ [][\A c \in Callers, key \in BlockKeys, w \in ReadWindows :
            (/\ ~use_range(store_config, w.n)
             /\ BlockFetches(key) = {}
             /\ ReadRange(c, key, w.offset, w.n)) =>
                /\ BlockFetch(c, key) \in inflight' \ inflight
                /\ calls'[c].pc = "waiting"
                /\ calls'[c].issued = <<BlockFetch(c, key)>>
                /\ groups'[key] = {c}]_vars

\* a read that failed and a later read of the same key that fetched afresh and
\* got the bytes: each issued its own fetch
C23_Witness ==
    \E c, d \in Callers :
        /\ calls[c].pc = "done" /\ calls[d].pc = "done"
        /\ calls[c].path = "whole" /\ calls[d].path = "whole"
        /\ calls[c].key = <<42, 3>> /\ calls[d].key = <<42, 3>>
        /\ calls[c].issued = <<BlockFetch(c, <<42, 3>>)>>
        /\ calls[d].issued = <<BlockFetch(d, <<42, 3>>)>>
        /\ calls[c].result = IoError
        /\ calls[d].result = window(patterned(block_size, 2), 0, block_size)
        /\ groups[<<42, 3>>] = {}

\* the range fetches in flight, and the callers on the range-fetch path
RangeFetches == {r \in inflight : r.kind = "get_object_range"}
Fetching == {c \in Callers : calls[c].pc = "fetching"}

\* C28: reads on the range-fetch path are never coalesced: every read_range
\* call at or below the threshold puts one backend range fetch of its own in
\* flight, also for the key and window of another call, so k concurrent calls
\* hold exactly k range fetches; such a call neither starts nor joins a
\* coalescing group.
C28_RangeNotCoalesced ==
    /\ [](/\ Cardinality(RangeFetches) = Cardinality(Fetching)
          /\ \A c \in Fetching :
                /\ calls[c].path = "range"
                /\ use_range(store_config, calls[c].n)
                /\ calls[c].issued =
                      <<RangeFetch(c, calls[c].key, calls[c].offset, calls[c].n)>>
                /\ calls[c].issued[1] \in inflight
                /\ \A key \in BlockKeys : c \notin groups[key])
    /\ [][\A c \in Callers, key \in BlockKeys, w \in ReadWindows :
            (use_range(store_config, w.n) /\ ReadRange(c, key, w.offset, w.n)) =>
                /\ Cardinality(inflight') = Cardinality(inflight) + 1
                /\ \E r \in inflight' \ inflight : r.kind = "get_object_range"
                /\ groups' = groups]_vars

\* every caller reads the same window of the same block at once
C28_Witness ==
    /\ Fetching = Callers
    /\ \A c \in Callers :
          /\ calls[c].key = <<42, 3>>
          /\ calls[c].offset = 0
          /\ calls[c].n = block_size \div 2
    /\ Cardinality(RangeFetches) = MaxCallers
    /\ groups[<<42, 3>>] = {}

\* C29: when a caller abandons its read_range call while other waiters are
\* attached to the same group, the whole-block fetch stays in flight and the
\* other waiters stay attached to it (so its completion serves them); the
\* fetch is cancelled only by the abandon of the last waiter, and otherwise
\* leaves the backend only by completing.
C29_AbandonKeepsFetch ==
    /\ [][\A c \in Callers :
            (calls[c].pc = "waiting" /\ Abandon(c)) =>
                LET key == calls[c].key
                    others == groups[key] \ {c}
                IN  /\ groups'[key] = others
                    /\ \A d \in others : calls'[d] = calls[d]
                    /\ others # {} =>
                          /\ inflight' = inflight
                          /\ Cardinality(BlockFetches(key)) = 1
                    /\ others = {} =>
                          inflight' = inflight \ BlockFetches(key)]_vars
    /\ [][\A key \in BlockKeys :
            (/\ BlockFetches(key) # {}
             /\ \A r \in BlockFetches(key) : r \notin inflight') =>
                \/ \E ok \in BOOLEAN :
                      /\ BlockFetched(key, ok)
                      /\ \A d \in groups[key] : calls'[d].pc = "done"
                \/ \E c \in Callers : Abandon(c) /\ groups[key] = {c}]_vars

\* the caller that issued the fetch has abandoned; the fetch is still in
\* flight for a waiter that had joined it
C29_Witness ==
    \E c, d \in Callers :
        /\ c # d
        /\ BlockFetch(c, <<42, 3>>) \in inflight
        /\ calls[c].pc = "idle"
        /\ groups[<<42, 3>>] = {d}
        /\ calls[d].pc = "waiting" /\ calls[d].issued = <<>>

\* ------------------------------------------------------------------ spans
\* ChunkSpan::new(0, offset, len): the byte ranges handed to the splitter
SpanOffsets == 0..chunk_size
SpanLens == 0..chunk_size

InitSplit ==
    /\ NoStore
    /\ config = Layout
    /\ len = 0
    /\ alloc_bytes = 0
    /\ pages = <<>>
    /\ op = "span"
    /\ ret \in {Ok([offset |-> o, len |-> n, spans |-> <<>>]) :
                  o \in SpanOffsets, n \in SpanLens}
    /\ shadow = <<>>
    /\ marks = {}
    /\ steps = 0
    /\ held = {}

\* span.split_into::<BlockTag>(chunk_size, block_size, true)
SplitBlocks ==
    /\ op = "span"
    /\ op' = "block_spans"
    /\ ret' = Ok([ret.val EXCEPT !.spans =
                    split_into(ret.val.offset, ret.val.len, chunk_size, block_size)])
    /\ steps' = steps + 1
    /\ UNCHANGED <<config, len, alloc_bytes, pages, shadow, marks>>
    /\ UNCHANGED store_vars
    /\ UNCHANGED held

\* block_span.split_into::<PageTag>(block_size, page_size, true), for every
\* block span in turn
SplitPages ==
    /\ op = "block_spans"
    /\ op' = "page_spans"
    /\ ret' = Ok([ret.val EXCEPT !.spans = page_windows(ret.val.spans)])
    /\ steps' = steps + 1
    /\ UNCHANGED <<config, len, alloc_bytes, pages, shadow, marks>>
    /\ UNCHANGED store_vars
    /\ UNCHANGED held

NextSplit == SplitBlocks \/ SplitPages

SpecSplit == InitSplit /\ [][NextSplit]_vars

\* the chunk-relative position a span starts at: the spans of a block by
\* index, the page windows by flat page index
SpanStart(sp, child_size) ==
    (IF "flat_idx" \in DOMAIN sp THEN sp.flat_idx ELSE sp.index) * child_size
        + sp.offset

\* the spans come in increasing position, each non-empty and within one child,
\* and cover [offset, offset + length) exactly once
CoversOnce(spans, child_size, offset, length) ==
    /\ \A k \in 1..Len(spans) :
          /\ spans[k].len > 0
          /\ spans[k].offset + spans[k].len <= child_size
    /\ \A k \in 1..(Len(spans) - 1) :
          SpanStart(spans[k], child_size) < SpanStart(spans[k + 1], child_size)
    /\ \A q \in 0..(2 * chunk_size) :
          Cardinality({k \in 1..Len(spans) :
                          /\ SpanStart(spans[k], child_size) <= q
                          /\ q < SpanStart(spans[k], child_size) + spans[k].len})
            = IF offset <= q /\ q < offset + length THEN 1 ELSE 0

\* C24: for every (offset, length) with offset + length <= chunk_size,
\* splitting the range into block spans and each block span into page spans
\* produces spans in increasing position that cover [offset, offset + length)
\* exactly once, with no gap and no overlap, each span within a single block,
\* respectively a single page of the page table.
C24_SplitRoundTrip ==
    (op \in {"block_spans", "page_spans"}
        /\ ret.val.offset + ret.val.len <= chunk_size) =>
        IF op = "block_spans"
        THEN /\ CoversOnce(ret.val.spans, block_size, ret.val.offset, ret.val.len)
             /\ \A k \in 1..Len(ret.val.spans) : ret.val.spans[k].index < total_blocks
        ELSE /\ CoversOnce(ret.val.spans, page_size, ret.val.offset, ret.val.len)
             /\ \A k \in 1..Len(ret.val.spans) : ret.val.spans[k].flat_idx \in Slots

\* a range that starts inside the last page of a block and ends inside the
\* second page of the next block
C24_Witness ==
    /\ op = "page_spans"
    /\ ret.val.offset = block_size - 1 /\ ret.val.len = page_size + 2
    /\ Len(ret.val.spans) = 3
    /\ ret.val.spans[1] =
          [flat_idx |-> pages_per_block - 1, offset |-> page_size - 1, len |-> 1]
    /\ ret.val.spans[2] = [flat_idx |-> pages_per_block, offset |-> 0, len |-> page_size]
    /\ ret.val.spans[3] = [flat_idx |-> pages_per_block + 1, offset |-> 0, len |-> 1]

C26_EvictionKeepsMutable ==
    [][(op' \in {"release_block", "release_all"}) =>
          \A i \in Slots : pages[i].kind = "Mutable" => pages'[i] = pages[i]]_vars

\* C27: a failed write is all-or-nothing: a write_at or an append whose range
\* spans several pages and that returns the frozen-write error has modified no
\* page byte, allocated no page and left len and alloc_bytes unchanged.
C27_FailedWriteAllOrNothing ==
    [][/\ \A offset \in Offsets, buf \in Patches :
            (/\ op' = "write_at"
             /\ Cardinality(SlotsOfRange(offset, Len(buf))) > 1
             /\ WriteAt(offset, buf)
             /\ ret' = Err("FrozenPageWrite"))
                => UNCHANGED <<pages, len, alloc_bytes>>
       /\ \A buf \in Bufs :
            (/\ op' = "append"
             /\ Cardinality(SlotsOfRange(len, Len(buf))) > 1
             /\ AppendOp(buf)
             /\ ret' = Err("FrozenPageWrite"))
                => UNCHANGED <<pages, len, alloc_bytes>>]_vars

\* the write of n bytes at position from ends on a page boundary of the chunk
\* (block and chunk boundaries are page boundaries too)
EndsOnBoundary(from, n) ==
    n > 0 /\ from + n <= chunk_size /\ (from + n) % page_size = 0

\* the call left alone every page at or after position end and allocated no
\* page but the empty slots of the range it wrote
TouchesNothingFrom(from, end) ==
    /\ ret'.kind # "panic"
    /\ \A i \in Slots : i * page_size >= end => pages'[i] = pages[i]
    /\ \A i \in Slots : pages[i].kind = "None" /\ pages'[i].kind # "None"
          => i \in SlotsOfRange(from, end - from)
    /\ alloc_bytes' = page_size * Cardinality({i \in Slots : pages'[i].kind # "None"})

\* C30: a write_at or an append whose range ends exactly on a page, block or
\* chunk boundary touches no page at or after that boundary: the split yields
\* no zero-length window and no window outside the page table, no page past
\* the range is allocated or changed, and the call does not panic, also when
\* the range ends at chunk_size.
C30_BoundaryWrites ==
    [][/\ \A offset \in Offsets, buf \in Patches :
            (/\ op' = "write_at"
             /\ EndsOnBoundary(offset, Len(buf))
             /\ WriteAt(offset, buf)) =>
                /\ TouchesNothingFrom(offset, offset + Len(buf))
                /\ LET wins == page_windows(
                                 split_into(offset, Len(buf), chunk_size, block_size))
                   IN  \A k \in 1..Len(wins) :
                          wins[k].len > 0 /\ wins[k].flat_idx \in Slots
       /\ \A buf \in Bufs :
            (/\ op' = "append"
             /\ EndsOnBoundary(len, Len(buf))
             /\ AppendOp(buf)) =>
                /\ TouchesNothingFrom(len, len + Len(buf))
                /\ ret'.kind = "ok" => len' = len + Len(buf)]_vars

\* the whole chunk overwritten in place, the write ending at chunk_size
C30_Witness ==
    /\ op = "write_at" /\ ret = Ok(Unit) /\ marks = {"patched"}
    /\ len = chunk_size /\ alloc_bytes = chunk_size
    /\ collect_all(freeze(pages), len) = Ok(patterned(chunk_size, 2))

\* an append issued when len is a multiple of page_size changes no page below
\* len
AlignedAppendSparesPrevious ==
    \A buf \in Bufs :
        (op' = "append" /\ len % page_size = 0 /\ AppendOp(buf)) =>
            \A i \in Slots : i * page_size < len => pages'[i] = pages[i]

\* C31 (as stated): an append issued when len is a multiple of page_size does
\* not touch the previous page; after freeze() an append of n > 0 bytes (that
\* fits in the chunk) succeeds when len is page-aligned and below chunk_size,
\* and fails with the frozen-write error leaving len unchanged when len is not
\* page-aligned.
C31_AppendAfterFreezeByAlignment ==
    [][/\ AlignedAppendSparesPrevious
       /\ (op' = "freeze" /\ Freeze) =>
            \A buf \in Bufs :
               (Len(buf) > 0 /\ append_fits(len', Len(buf))) =>
                  LET st == append(pages', alloc_bytes', len', buf) IN
                  IF len' % page_size = 0
                  THEN st.ret = Ok(Unit)
                  ELSE st.ret = Err("FrozenPageWrite") /\ st.len = len']_vars

\* C31 (amended): an append issued when len is a multiple of page_size does
\* not touch any page below len; after freeze() an append of n > 0 bytes that
\* fits in the chunk succeeds, storing its bytes from len on, when no page slot
\* of its range is allocated, and fails with the frozen-write error, leaving
\* len and every page unchanged, when the slot holding position len is
\* allocated.  Alignment of len decides this only while no page was released
\* and no page past len was allocated.
C31_AppendAfterFreezeBySlot ==
    [][/\ AlignedAppendSparesPrevious
       /\ (op' = "freeze" /\ Freeze) =>
            \A buf \in Bufs :
               (Len(buf) > 0 /\ append_fits(len', Len(buf))) =>
                  LET st == append(pages', alloc_bytes', len', buf) IN
                  /\ (\A i \in SlotsOfRange(len', Len(buf)) : pages'[i].kind = "None")
                        => /\ st.ret = Ok(Unit)
                           /\ st.len = len' + Len(buf)
                           /\ StoredAt(st.pages, len', buf)
                  /\ pages'[len' \div page_size].kind # "None"
                        => /\ st.ret = Err("FrozenPageWrite")
                           /\ st.len = len' /\ st.pages = pages'
                  /\ ("gap" \notin marks /\ "released" \notin marks) =>
                        IF len' % page_size = 0
                        THEN \A i \in SlotsOfRange(len', Len(buf)) : pages'[i].kind = "None"
                        ELSE pages'[len' \div page_size].kind = "Frozen"]_vars

\* a frozen buffer whose len is one full page: the next append takes a new page
C31_Witness ==
    /\ op = "freeze" /\ marks = {} /\ steps = MaxOps
    /\ len = page_size /\ pages[0].kind = "Frozen" /\ pages[1].kind = "None"
    /\ LET st == append(pages, alloc_bytes, len, patterned(1, 1)) IN
       /\ st.ret = Ok(Unit)
       /\ st.pages[0] = pages[0]
       /\ st.pages[1].kind = "Mutable"

\* C32 (as stated): collect_pages(start, end) stops emitting once the logical
\* length is exhausted: the result contains an entry for block b only if
\* b * block_size < len, and it is empty when start * block_size >= len.
C32_NoEntryPastLen ==
    \A start \in BlockArgs, end \in BlockArgs :
        LET r == collect_pages(pages, len, start, end) IN
        r.kind = "ok" =>
            /\ \A k \in 1..Len(r.val) : r.val[k].block * block_size < len
            /\ start * block_size >= len => r.val = <<>>

\* C32 (amended): collect_pages(start, end) stops emitting byte chunks once the
\* logical length is exhausted: the entry of block b holds chunks only if
\* b * block_size < len; when start * block_size < len every block of
\* [start, end) has an entry, those lying entirely at or past len with an empty
\* chunk list; the result has no entry at all when start * block_size >= len.
C32_NoChunkPastLen ==
    \A start \in BlockArgs, end \in BlockArgs :
        LET r == collect_pages(pages, len, start, end) IN
        r.kind = "ok" =>
            /\ \A k \in 1..Len(r.val) :
                  /\ r.val[k].block = start + k - 1
                  /\ r.val[k].pages # <<>> <=> r.val[k].block * block_size < len
            /\ Len(r.val) = IF start * block_size < len THEN Max(end - start, 0) ELSE 0

\* one byte collected over two blocks: the second block has an entry without
\* chunks
C32_Witness ==
    /\ op = "collect_pages" /\ ret.kind = "ok" /\ marks = {}
    /\ len = 1
    /\ Len(ret.val) = 2
    /\ ret.val[1] = [block |-> 0, pages |-> <<patterned(1, 1)>>]
    /\ ret.val[2] = [block |-> 1, pages |-> <<>>]

\* ------------------------------------------------------------------ snapshots
\* The holder of collected bytes and the buffer: Page::bytes clones the Bytes
\* of a frozen page, so the chunk handed out shares the allocation of the page
\* for as long as the page stays in its slot.

\* the chunks collect_pages(start, end) hands out that share a page's bytes:
\* bytes.slice(0..take) of every Frozen page visited
Handles(pgs, ln, start, end) ==
    {[slot |-> i, shared |-> TRUE,
      seen |-> SubSeq(pgs[i].data, 1, take_len(ln - i * page_size)),
      bytes |-> SubSeq(pgs[i].data, 1, take_len(ln - i * page_size))] :
        i \in {j \in SlotsOfBlocks(start, end) :
                  j * page_size < ln /\ pgs[j].kind = "Frozen"}}

\* what a handle shows after the page table became pgs: the bytes now in the
\* shared allocation, or, once the page was dropped, the bytes it kept alive
Follow(h, pgs) ==
    IF ~h.shared THEN h
    ELSE IF pgs[h.slot].kind = "None" THEN [h EXCEPT !.shared = FALSE]
    ELSE [h EXCEPT !.bytes = SubSeq(pgs[h.slot].data, 1, Len(h.seen))]

SnapLive == ret.kind # "panic" /\ steps < MaxSnapOps

SnapStep(name, st) ==
    /\ pages' = st.pages
    /\ alloc_bytes' = st.alloc
    /\ len' = st.len
    /\ ret' = st.ret
    /\ op' = name
    /\ steps' = steps + 1
    /\ held' = {Follow(h, st.pages) : h \in held}
    /\ UNCHANGED <<config, shadow, marks>>
    /\ UNCHANGED store_vars

SnapAppend(buf) ==
    SnapLive /\ SnapStep("append", append(pages, alloc_bytes, len, buf))

SnapWriteAt(offset, buf) ==
    SnapLive /\ SnapStep("write_at", write_at(pages, alloc_bytes, len, offset, buf))

SnapFreeze ==
    SnapLive /\ SnapStep("freeze", St(freeze(pages), alloc_bytes, len, Ok(Unit)))

SnapReleaseBlock(idx) ==
    SnapLive /\ SnapStep("release_block", release_block(pages, alloc_bytes, len, idx))

SnapReleaseAll ==
    SnapLive /\ SnapStep("release_all", release_all(pages, alloc_bytes, len))

SnapCollect(start, end) ==
    /\ SnapLive
    /\ LET r == collect_pages(pages, len, start, end) IN
       /\ ret' = r
       /\ held' = held \cup (IF r.kind = "ok" THEN Handles(pages, len, start, end)
                            ELSE {})
    /\ op' = "collect_pages"
    /\ steps' = steps + 1
    /\ UNCHANGED <<config, len, alloc_bytes, pages, shadow, marks>>
    /\ UNCHANGED store_vars

\* one byte and a little more than a page; the first block and the whole chunk
SnapBufs == {patterned(1, 1), patterned(page_size + 1, 1)}
SnapCollects == {<<0, 1>>, <<0, total_blocks>>}

NextSnapshot ==
    \/ \E buf \in SnapBufs : SnapAppend(buf)
    \/ SnapWriteAt(0, patterned(1, 2))
    \/ SnapFreeze
    \/ SnapReleaseBlock(<<0>>)
    \/ SnapReleaseAll
    \/ \E c \in SnapCollects : SnapCollect(c[1], c[2])

SpecSnapshot == Init /\ [][NextSnapshot]_vars

\* C33: bytes handed out by collect_pages are an immutable snapshot: whatever
\* is done to the buffer afterwards (release_block, release_all, a new page
\* created in the same slot and written, further appends and write_at, freeze)
\* the holder of a chunk sees the bytes it was handed.
C33_SnapshotImmutable ==
    \A h \in held : h.bytes = h.seen

\* a chunk whose page was released and whose slot holds a new page with other
\* bytes
C33_Witness ==
    \E h \in held :
        /\ ~h.shared
        /\ h.seen = patterned(1, 1)
        /\ pages[h.slot].kind = "Mutable"
        /\ SubSeq(pages[h.slot].data, 1, Len(h.seen)) # h.seen
        /\ h.bytes = h.seen

\* C34: when write(offset, buf, action) runs right after the can_write(offset,
\* n) that chose its action, a write that returns Ok has stored the bytes at
\* exactly [offset, offset + n) (and an Append leaves len = offset + n); when
\* len has moved since the decision (an append in between), write with the
\* Append action ignores its offset: it does what append(buf) does, storing
\* the bytes from the current len on, away from the requested offset, and
\* returns Ok.
C34_CheckThenWrite ==
    [][\A offset \in Offsets, buf \in WriteBufs, action \in {"Append", "Overlap"} :
         (op' = "write" /\ Write(offset, buf, action)) =>
            LET n == Len(buf)
                byte(pgs, q) == IF pgs[q \div page_size].kind = "None" THEN 0
                                ELSE pgs[q \div page_size].data[(q % page_size) + 1]
            IN
            /\ (action = can_write(len, offset, n) /\ ret'.kind = "ok") =>
                  /\ StoredAt(pages', offset, buf)
                  /\ \A q \in 0..(chunk_size - 1) :
                        (q < offset \/ q >= offset + n) => byte(pages', q) = byte(pages, q)
                  /\ len' = IF action = "Append" THEN offset + n ELSE len
            /\ (action = "Append" /\ offset # len) =>
                  LET st == append(pages, alloc_bytes, len, buf) IN
                  /\ pages' = st.pages /\ len' = st.len /\ ret' = st.ret
                  /\ append_fits(len, n) /\ NoFrozen(pages) => ret' = Ok(Unit)
                  /\ ret'.kind = "ok" =>
                        /\ StoredAt(pages', len, buf)
                        /\ len' = len + n
                        /\ \A q \in 0..(len - 1) : byte(pages', q) = byte(pages, q)]_vars

\* an append came between the decision for offset 0 and the write: the byte
\* of the write follows the byte of the append
C34_Witness ==
    /\ op = "write" /\ ret = Ok(Unit) /\ marks = {} /\ steps = 2
    /\ len = 2
    /\ pages[0] = [kind |-> "Mutable", data |-> patterned(1, 1) \o patterned(1, 2)]
    /\ can_write(0, 0, 1) = "Append"

\* the bytes write_range stored for the window [offset, offset + n) of a block
WrittenWindow(key, offset, n) == Ok(SubSeq(objects[key], offset + 1, offset + n))

C36_AllocAccounting ==
    /\ [](LET s == stats(pages, alloc_bytes, len) IN
          s.alloc_bytes = s.pages_used * page_size)
    /\ [][\A idx \in BlockLists :
            (op' = "release_block" /\ ReleaseBlock(idx) /\ ret'.kind = "ok") =>
                /\ ret'.val <= alloc_bytes
                /\ alloc_bytes' = alloc_bytes - ret'.val]_vars

\* one page of three released: two pages stay accounted for
C36_Witness ==
    /\ op = "release_block" /\ ret = Ok(page_size)
    /\ alloc_bytes = pages_per_block * page_size
    /\ stats(pages, alloc_bytes, len).pages_used = pages_per_block
    /\ len = block_size + 1

\* the flat indices of the allocated page slots
Allocated(pgs) == {i \in Slots : pgs[i].kind # "None"}

\* no release was applied and every write_at stayed inside [0, len)
DenseHistory == marks \cap {"gap", "released"} = {}

\* C37: as long as no release operation has been applied and every write_at
\* satisfied offset + length <= len, the allocated page slots are exactly the
\* flat indices 0 .. ceil(len / page_size) - 1: pages_used is
\* ceil(len / page_size), no slot at or beyond len is allocated, and write_at
\* allocates no new page.
C37_DensePrefix ==
    /\ [](DenseHistory =>
            /\ Allocated(pages) = {i \in Slots : i < DivCeil(len, page_size)}
            /\ stats(pages, alloc_bytes, len).pages_used = DivCeil(len, page_size)
            /\ \A i \in Slots : i * page_size >= len => pages[i] = NoPage)
    /\ [][(op' = "write_at" /\ DenseHistory') =>
            Allocated(pages') = Allocated(pages)]_vars

\* an append across the block boundary, then an overwrite inside len
C37_Witness ==
    /\ DenseHistory
    /\ op = "write_at" /\ ret = Ok(Unit)
    /\ "patched" \in marks
    /\ len = block_size + 1
    /\ Allocated(pages) = 0..pages_per_block

\* C38: in every reachable state, append of any buffer and
\* collect_pages(start, end) for any start <= end (end greater than the number
\* of blocks and len = chunk_size included) never index the page table at or
\* past pages_total: len stays within the chunk, the next-write slot is
\* computed only while len < chunk_size, and collect_pages indexes a slot only
\* while bytes below len remain.
C38_NoIndexPastTable ==
    /\ len <= chunk_size
    /\ \A buf \in Bufs \cup Patches :
          append(pages, alloc_bytes, len, buf).ret # Panic
    /\ \A start \in BlockArgs, end \in BlockArgs :
          start <= end => collect_pages(pages, len, start, end) # Panic
    /\ op \in {"append", "collect_pages"} => ret # Panic

\* a full chunk collected through a block past the table's end
C38_Witness ==
    /\ len = chunk_size
    /\ op = "collect_pages" /\ ret.kind = "ok"
    /\ Len(ret.val) = total_blocks + 1
    /\ append(pages, alloc_bytes, len, patterned(1, 1)).ret = Err("ChunkOverflow")

\* the number of bytes in the entries collect_pages returned
TotalBytes(entries) ==
    Len(Concat([k \in 1..Len(entries) |-> Concat(entries[k].pages)]))

\* C39: the number of bytes a successful collect_pages(start, end) returns is
\* min(max(len - start * block_size, 0), (end - start) * block_size) and
\* depends on len, start and end only: a slot that was never written or that
\* was released is emitted as zero bytes of the same size, so after
\* release_block / release_all, which keep len, collecting a released block
\* succeeds and yields zeros instead of the data written before.
C39_CollectedByteCount ==
    \A start \in BlockArgs, end \in BlockArgs :
       start <= end =>
          LET r == collect_pages(pages, len, start, end) IN
          /\ r.kind = "ok" =>
                /\ TotalBytes(r.val) =
                      Min(Max(len - start * block_size, 0), (end - start) * block_size)
                /\ \A k \in 1..Len(r.val) : \A j \in 1..Len(r.val[k].pages) :
                      LET flat_idx == flat_index(r.val[k].block, j - 1, pages_per_block) IN
                      /\ Len(r.val[k].pages[j]) = Min(page_size, len - flat_idx * page_size)
                      /\ pages[flat_idx] = NoPage =>
                            r.val[k].pages[j] = Zeros(Len(r.val[k].pages[j]))
          /\ (\A i \in SlotsOfBlocks(start, end) : pages[i] = NoPage) =>
                /\ r.kind = "ok"
                /\ Concat([k \in 1..Len(r.val) |-> Concat(r.val[k].pages)])
                      = Zeros(Min(Max(len - start * block_size, 0),
                                  (end - start) * block_size))

\* written bytes, release_all, then the block collected as zeros
C39_Witness ==
    /\ op = "collect_pages" /\ "released" \in marks
    /\ len = page_size + 1 /\ shadow = patterned(page_size + 1, 1)
    /\ Allocated(pages) = {}
    /\ ret = Ok(<<[block |-> 0, pages |-> <<Zeros(page_size), Zeros(1)>>]>>)

\* CacheSliceStats::pages_total: self.pages.len()
pages_total(pgs) == Cardinality(DOMAIN pgs)

\* a buffer exists: CacheSlice::new has returned one
Constructed == op # "config" /\ ~(op = "new" /\ ret.kind # "ok")

\* collect_pages, stats and can_write assign no field of the buffer, whether
\* they return a value or an error
QueriesReadOnly == [][op' \in Queries => buffer' = buffer]_vars

\* C40: collect_pages, stats, can_write, page and a failing Page::bytes are
\* read-only: on success and on error they leave len, alloc_bytes and the
\* presence, state and bytes of every page slot unchanged, and
\* stats().pages_total is the constant
\* (chunk_size / block_size) * (block_size / page_size) in every state.
C40_ReadOnlyConstantTotal ==
    /\ QueriesReadOnly
    /\ [](Constructed =>
            pages_total(pages) = (config.chunk_size \div config.block_size)
                                 * (config.block_size \div config.page_size))

====
